---- MODULE Spec2Model ----
(***************************************************************************)
(* A model of action.toolkit (src/action/toolkit/toolkit.py): get_env,     *)
(* parse_arguments and action_main.                                        *)
(*                                                                         *)
(* Representation.  A Python str is a sequence of one-character strings    *)
(* (<<"a","b">> is 'ab'), so that upper(), replace(), expandvars() and the *)
(* ordering used by sorted() are computed and not assumed.  A Python value *)
(* that may be None, a str or a non-string YAML scalar is a record         *)
(* [kind, s, n] built by None, Str(s) and Num(n).  A dict is a function    *)
(* whose domain is its key set; os.environ is the function environ.        *)
(***************************************************************************)
EXTENDS Integers, Sequences, FiniteSets, TLC

VARIABLES
    action_spec,     \* the ActionSpec object (after __post_init__) plus the callables' behaviour
    manifest,        \* y['inputs'] of the action.yaml file, in file order
    environ,         \* os.environ
    argv,            \* the command line strings, sys.argv[1:]
    pc,              \* position in action_main / parse_arguments, or the exception that ended it
    arguments,       \* parse_arguments' local list of ArgSpec tuples
    args,            \* the argument mapping (the Namespace, then vars(args), then set_defaults' result)
    missing_args,    \* parse_arguments' second result
    parsed_args,     \* the mapping parse_arguments returned (kept for comparison)
    log,             \* the records written to the logger, in order
    stdout,          \* the lines printed, in order
    exit_status,     \* None while running or returned, the status after exit(1) or argparse's exit
    outputs,         \* do_action's result mapping, in insertion order
    events,          \* the calls action_main made, in order, with the mappings passed and returned
    envar_list,      \* get_env's first parameter   (get_env called on its own)
    env_default,     \* get_env's second parameter
    env_result       \* get_env's result

vars == <<action_spec, manifest, environ, argv, pc, arguments, args, missing_args,
          parsed_args, log, stdout, exit_status, outputs, events,
          envar_list, env_default, env_result>>

----------------------------------------------------------------------------
(* Python values *)

None == [kind |-> "none", s |-> <<>>, n |-> 0]
Str(s) == [kind |-> "str", s |-> s, n |-> 0]
Num(n) == [kind |-> "int", s |-> <<>>, n |-> n]

\* Python truth value, as used by `if value:` and `a or b`.
Truthy(v) ==
    \/ v.kind = "str" /\ v.s # <<>>
    \/ v.kind = "int" /\ v.n # 0

\* isinstance(v, str)
IsStr(v) == v.kind = "str"

\* The dict with no entries.
EmptyMap == [k \in {} |-> None]

\* d[k] = v on a dict.
SetItem(d, k, v) == [x \in (DOMAIN d) \cup {k} |-> IF x = k THEN v ELSE d[x]]

----------------------------------------------------------------------------
(* Characters *)

Lowers == << "a", "b", "c", "d", "e", "f", "g", "h", "i", "j", "k", "l", "m",
            "n", "o", "p", "q", "r", "s", "t", "u", "v", "w", "x", "y", "z" >>
Uppers == << "A", "B", "C", "D", "E", "F", "G", "H", "I", "J", "K", "L", "M",
            "N", "O", "P", "Q", "R", "S", "T", "U", "V", "W", "X", "Y", "Z" >>
Digits == << "0", "1", "2", "3", "4", "5", "6", "7", "8", "9" >>

IndexOf(seq, c) == CHOOSE i \in DOMAIN seq : seq[i] = c
Has(seq, c) == \E i \in DOMAIN seq : seq[i] = c

\* The printable ASCII characters in code point order, ' ' (32) to '~' (126).
\* A character that a string of this language cannot hold is written as U+
\* and its code point: U+0060 is the grave accent.
Printable ==
    << " ", "!", "\"", "#", "$", "%", "&", "'", "(", ")", "*", "+", ",", "-", ".", "/",
       "0", "1", "2", "3", "4", "5", "6", "7", "8", "9", ":", ";", "<", "=", ">", "?",
       "@", "A", "B", "C", "D", "E", "F", "G", "H", "I", "J", "K", "L", "M", "N", "O",
       "P", "Q", "R", "S", "T", "U", "V", "W", "X", "Y", "Z", "[", "\\", "]", "^", "_",
       "U+0060", "a", "b", "c", "d", "e", "f", "g", "h", "i", "j", "k", "l", "m", "n", "o",
       "p", "q", "r", "s", "t", "u", "v", "w", "x", "y", "z", "{", "|", "}", "~" >>

\* The characters outside ASCII that the model knows, each with its code
\* point, its str.upper() and whether the regular expression class \d (of a
\* str pattern: any Unicode decimal digit) matches it: sharp s, e acute small
\* and capital, superscript two and ARABIC-INDIC DIGIT THREE.
NonAscii ==
    { [c |-> "U+00DF", ord |-> 223, upper |-> << "S", "S" >>, decimal |-> FALSE],
      [c |-> "U+00E9", ord |-> 233, upper |-> << "U+00C9" >>, decimal |-> FALSE],
      [c |-> "U+00C9", ord |-> 201, upper |-> << "U+00C9" >>, decimal |-> FALSE],
      [c |-> "U+00B2", ord |-> 178, upper |-> << "U+00B2" >>, decimal |-> FALSE],
      [c |-> "U+0663", ord |-> 1635, upper |-> << "U+0663" >>, decimal |-> TRUE] }

IsNonAscii(c) == \E r \in NonAscii : r.c = c
NonAsciiEntry(c) == CHOOSE r \in NonAscii : r.c = c

\* ord(c), for a printable ASCII character, a tab, newline, form feed or
\* carriage return, and the characters of NonAscii.
Ord(c) ==
    CASE Has(Printable, c) -> 31 + IndexOf(Printable, c)
      [] c = "\t" -> 9
      [] c = "\n" -> 10
      [] c = "\f" -> 12
      [] c = "\r" -> 13
      [] OTHER -> NonAsciiEntry(c).ord

IsLower(c) == Has(Lowers, c)
IsUpperCase(c) == Has(Uppers, c)
IsDigit(c) == Has(Digits, c)

\* The regular expression class \w under re.ASCII.
IsWordChar(c) == IsLower(c) \/ IsUpperCase(c) \/ IsDigit(c) \/ c = "_"

\* The regular expression class \d of a str pattern with no flag.
IsDecimalDigit(c) == IsDigit(c) \/ (IsNonAscii(c) /\ NonAsciiEntry(c).decimal)

\* str.upper() on one character: a str, of two characters for sharp s.
UpperChar(c) ==
    IF IsLower(c) THEN << Uppers[IndexOf(Lowers, c)] >>
    ELSE IF IsNonAscii(c) THEN NonAsciiEntry(c).upper
    ELSE << c >>

\* str.upper()
RECURSIVE Upper(_)
Upper(s) == IF s = <<>> THEN <<>> ELSE UpperChar(Head(s)) \o Upper(Tail(s))

\* str.replace(' ', '') : every space removed
RemoveSpaces(s) == SelectSeq(s, LAMBDA c : c # " ")

\* s[a:b] with 1-based inclusive positions; empty when a > b.
Slice(s, a, b) == IF a > b THEN <<>> ELSE SubSeq(s, a, b)

\* Python's < on str: lexicographic by code point.
StrLess(a, b) ==
    \E k \in 1..(Len(a) + 1) :
        /\ \A i \in 1..(k - 1) : i <= Len(b) /\ a[i] = b[i]
        /\ k <= Len(b)
        /\ (k > Len(a) \/ Ord(a[k]) < Ord(b[k]))

----------------------------------------------------------------------------
(* get_env *)

\* os.getenv(name, None)
Getenv(name) == IF name \in DOMAIN environ THEN Str(environ[name]) ELSE None

\* get_env returning the first variable that is set, an empty one included.
RECURSIVE get_env_KeepEmpty(_, _)
get_env_KeepEmpty(list, default) ==
    IF list = <<>>
    THEN default
    ELSE LET value == Getenv(Head(list))
         IN  IF value # None THEN value ELSE get_env_KeepEmpty(Tail(list), default)

\* get_env(envar_list, default): the first variable of the list that is set to
\* a non-empty string, else the default.
RECURSIVE get_env(_, _)
get_env(list, default) ==
    IF list = <<>>
    THEN default
    ELSE LET value == Getenv(Head(list))
         IN  IF Truthy(value) THEN value ELSE get_env(Tail(list), default)

----------------------------------------------------------------------------
(* os.path.expandvars, as parse_arguments applies it to a string default *)

\* The last position of the match of \$(\w+|\{[^}]*\}) that starts at position
\* p of path, or 0 when the pattern does not match there.
MatchEnd(path, p) ==
    IF p >= Len(path) \/ path[p] # "$"
    THEN 0
    ELSE IF IsWordChar(path[p + 1])
    THEN CHOOSE j \in (p + 1)..Len(path) :
            /\ \A k \in (p + 1)..j : IsWordChar(path[k])
            /\ (j = Len(path) \/ ~IsWordChar(path[j + 1]))
    ELSE IF path[p + 1] = "{" /\ (\E j \in (p + 2)..Len(path) : path[j] = "}")
    THEN CHOOSE j \in (p + 2)..Len(path) :
            /\ path[j] = "}"
            /\ \A k \in (p + 2)..(j - 1) : path[k] # "}"
    ELSE 0

\* re.search from position i: where the first match starts, or 0.
FirstMatch(path, i) ==
    IF \E p \in i..Len(path) : MatchEnd(path, p) # 0
    THEN CHOOSE p \in i..Len(path) :
            /\ MatchEnd(path, p) # 0
            /\ \A q \in i..(p - 1) : MatchEnd(path, q) = 0
    ELSE 0

\* The variable name of a match's group: the braces of {name} stripped.
GroupName(group) ==
    IF Head(group) = "{" /\ group[Len(group)] = "}"
    THEN Slice(group, 2, Len(group) - 1)
    ELSE group

\* The loop of expandvars resuming at the start of the inserted value, which
\* is then scanned for references itself.
RECURSIVE ExpandFrom_Rescan(_, _)
ExpandFrom_Rescan(path, i) ==
    LET p == FirstMatch(path, i)
    IN  IF p = 0
        THEN path
        ELSE LET j == MatchEnd(path, p)
                 name == GroupName(SubSeq(path, p + 1, j))
             IN  IF name \in DOMAIN environ
                 THEN ExpandFrom_Rescan(Slice(path, 1, p - 1) \o environ[name]
                                            \o Slice(path, j + 1, Len(path)), p)
                 ELSE ExpandFrom_Rescan(path, j + 1)

\* The loop of expandvars, resumed at position i: a reference to a set variable
\* is replaced and the scan resumes after the inserted value; a reference to
\* an unset variable is skipped.
RECURSIVE ExpandFrom(_, _)
ExpandFrom(path, i) ==
    LET p == FirstMatch(path, i)
    IN  IF p = 0
        THEN path
        ELSE LET j == MatchEnd(path, p)
                 name == GroupName(SubSeq(path, p + 1, j))
             IN  IF name \in DOMAIN environ
                 THEN LET head == Slice(path, 1, p - 1) \o environ[name]
                      IN  ExpandFrom(head \o Slice(path, j + 1, Len(path)), Len(head) + 1)
                 ELSE ExpandFrom(path, j + 1)

expandvars(path) == ExpandFrom(path, 1)

----------------------------------------------------------------------------
(* parse_arguments *)

\* The default of one manifest input: input_dict.get('default', None), with the
\* environment variables of a string expanded.
LoadDefault(default) == IF IsStr(default) THEN Str(expandvars(default.s)) ELSE default

\* The ArgSpec list read from the manifest.  An input is [name, default,
\* required]; a default of None is a manifest that declares none.  The help
\* text is left out: it reaches only argparse's usage message.
LoadArguments(inputs) ==
    [i \in DOMAIN inputs |->
        [name |-> inputs[i].name,
         default |-> LoadDefault(inputs[i].default),
         required |-> inputs[i].required]]

INPUT_ == << "I", "N", "P", "U", "T", "_" >>

\* The tool-specific environment variable of a parameter.
ToolEnvName(spec, name) ==
    Upper(RemoveSpaces(spec.env_prefix.s)) \o << "_" >> \o Upper(name)

\* The generic environment variable of a parameter.
GenericEnvName(name) == INPUT_ \o Upper(name)

\* The default handed to add_argument: the environment, then the manifest.
ArgDefault(spec, arg_spec) ==
    get_env(<< ToolEnvName(spec, arg_spec.name), GenericEnvName(arg_spec.name) >>,
            arg_spec.default)

\* str.lstrip('-'): the leading hyphens removed.
RECURSIVE LStripHyphens(_)
LStripHyphens(s) == IF s # <<>> /\ Head(s) = "-" THEN LStripHyphens(Tail(s)) ELSE s

\* str.startswith(prefix)
StartsWith(s, prefix) == Len(prefix) <= Len(s) /\ SubSeq(s, 1, Len(prefix)) = prefix

\* s.split('=', 1) of a string that holds a '=': the position of the first '=',
\* the part before it and the part after it.
EqualsAt(s) == CHOOSE i \in DOMAIN s : s[i] = "=" /\ \A j \in 1..(i - 1) : s[j] # "="
BeforeEquals(s) == Slice(s, 1, EqualsAt(s) - 1)
AfterEquals(s) == Slice(s, EqualsAt(s) + 1, Len(s))

\* An exception raised in place of a value.
Raise(exception) == [kind |-> exception, s |-> <<>>, n |-> 0]

\* The empty list, the one value argparse stores that is no str.
EmptyList == [kind |-> "list", s |-> <<>>, n |-> 0]

\* The option string handed to add_argument: f"--{arg_spec.name}".
OptionString(name) == << "-", "-" >> \o name

\* The option strings ArgumentParser() registers for its own help action.
HelpOptions == { << "-", "h" >>, << "-", "-", "h", "e", "l", "p" >> }

\* argparse's dest of the option string '--' + name: the leading hyphens (those
\* of the name included) are stripped and every other '-' becomes '_';
\* ValueError when the stripping leaves nothing.
Dest(name) ==
    LET stem == LStripHyphens(OptionString(name))
    IN  IF stem = <<>>
        THEN Raise("ValueError")
        ELSE Str([i \in DOMAIN stem |-> IF stem[i] = "-" THEN "_" ELSE stem[i]])

\* parser.add_argument for the i-th ArgSpec: "ok", or the exception raised:
\* ValueError for no dest, ArgumentError for an option string that is
\* registered already (--help, or the name of an earlier ArgSpec).
add_argument(arglist, i) ==
    LET registered == HelpOptions \cup { OptionString(arglist[j].name) : j \in 1..(i - 1) }
    IN  IF Dest(arglist[i].name).kind = "ValueError" THEN "ValueError"
        ELSE IF OptionString(arglist[i].name) \in registered THEN "ArgumentError"
        ELSE "ok"

\* The loop of add_argument calls: the first call that raises ends it.
AddArguments(arglist) ==
    LET raising == { i \in DOMAIN arglist : add_argument(arglist, i) # "ok" }
    IN  IF raising = {}
        THEN "ok"
        ELSE add_argument(arglist, CHOOSE i \in raising : \A j \in raising : i <= j)

\* The keys of the parser's table of option strings.
OptionStrings(arglist) ==
    HelpOptions \cup { OptionString(arglist[i].name) : i \in DOMAIN arglist }

\* The action an option string is registered for: help, or store under a dest.
OptionAction(option) ==
    IF option \in HelpOptions
    THEN [help |-> TRUE, dest |-> <<>>]
    ELSE [help |-> FALSE, dest |-> Dest(Tail(Tail(option))).s]

\* A string that the regular expression -\d+|-\d*\.\d+ matches in full.
AllDecimalDigits(s) == \A i \in DOMAIN s : IsDecimalDigit(s[i])
NegativeNumberText(s) ==
    /\ s # <<>>
    /\ s[1] = "-"
    /\ \/ Len(s) >= 2 /\ AllDecimalDigits(Tail(s))
       \/ \E k \in 2..(Len(s) - 1) :
            /\ s[k] = "."
            /\ AllDecimalDigits(Slice(s, 2, k - 1))
            /\ AllDecimalDigits(Slice(s, k + 1, Len(s)))

\* _negative_number_matcher.match(s), the regular expression
\* ^-\d+$|^-\d*\.\d+$ of argparse: $ is the end of the string or the place
\* before a newline that ends the string.
IsNegativeNumber(s) ==
    \/ NegativeNumberText(s)
    \/ s # <<>> /\ s[Len(s)] = "\n" /\ NegativeNumberText(Slice(s, 1, Len(s) - 1))

OptionTuple(option, explicit) == [option |-> option, explicit |-> explicit]

\* _get_option_tuples: the registered option strings an argument of two or more
\* characters that starts with '-' may stand for, each with the explicit
\* argument it would carry.
get_option_tuples(options, s) ==
    IF s[2] = "-"
    THEN LET option_prefix == IF Has(s, "=") THEN BeforeEquals(s) ELSE s
             explicit_arg == IF Has(s, "=") THEN Str(AfterEquals(s)) ELSE None
         IN  { OptionTuple(o, explicit_arg) : o \in { x \in options : StartsWith(x, option_prefix) } }
    ELSE { OptionTuple(o, Str(Slice(s, 3, Len(s)))) : o \in { x \in options : x = Slice(s, 1, 2) } }
         \cup { OptionTuple(o, None) :
                    o \in { x \in options : x # Slice(s, 1, 2) /\ StartsWith(x, s) } }

\* What _parse_optional makes of one argument string: a positional argument
\* ("A"), an option ("O": registered or not, with its option string and
\* explicit argument), or the error of an ambiguous abbreviation.
Positional == [class |-> "A", known |-> FALSE, option |-> <<>>, explicit |-> None]
Optional(known, option, explicit) ==
    [class |-> "O", known |-> known, option |-> option, explicit |-> explicit]
Ambiguous == [class |-> "error", known |-> FALSE, option |-> <<>>, explicit |-> None]

\* The end of _parse_optional, for a string that is no registered option
\* string: more than one option tuple is an error, one is the option, none
\* leaves a negative number or a string with a space as an argument and
\* anything else as an option that is not registered.
ByOptionTuples(s, option_tuples) ==
    IF Cardinality(option_tuples) > 1 THEN Ambiguous
    ELSE IF Cardinality(option_tuples) = 1
         THEN Optional(TRUE, (CHOOSE x \in option_tuples : TRUE).option,
                       (CHOOSE x \in option_tuples : TRUE).explicit)
    ELSE IF IsNegativeNumber(s) THEN Positional
    ELSE IF Has(s, " ") THEN Positional
    ELSE Optional(FALSE, s, None)

parse_optional(options, s) ==
    IF s = <<>> THEN Positional
    ELSE IF s[1] # "-" THEN Positional
    ELSE IF s \in options THEN Optional(TRUE, s, None)
    ELSE IF Len(s) = 1 THEN Positional
    ELSE IF Has(s, "=") /\ BeforeEquals(s) \in options
         THEN Optional(TRUE, BeforeEquals(s), Str(AfterEquals(s)))
    ELSE ByOptionTuples(s, get_option_tuples(options, s))

DOUBLE_DASH == << "-", "-" >>

\* The position of the first '--' of the command line, past its end if none.
FirstDoubleDash(strings) ==
    IF \E i \in DOMAIN strings : strings[i] = DOUBLE_DASH
    THEN CHOOSE i \in DOMAIN strings :
            strings[i] = DOUBLE_DASH /\ \A j \in 1..(i - 1) : strings[j] # DOUBLE_DASH
    ELSE Len(strings) + 1

\* The character of arg_strings_pattern at position i.
ArgPattern(options, strings, i) ==
    IF i = FirstDoubleDash(strings) THEN "-"
    ELSE IF i > FirstDoubleDash(strings) THEN "A"
    ELSE parse_optional(options, strings[i]).class

\* _get_values on the one argument string of a store action: a '--' is removed
\* from the list first, which leaves the empty list.
get_values(s) == IF s = DOUBLE_DASH THEN EmptyList ELSE Str(s)

\* The exit status when a help option carries the explicit argument e: the
\* short option takes each further character as another short option, the long
\* one takes none.  (A registered option string of two characters is '-h'.)
RECURSIVE HelpExplicit(_, _, _)
HelpExplicit(options, option, e) ==
    IF option[2] # "-" /\ e # <<>>
    THEN IF << "-", e[1] >> \in options
         THEN IF Tail(e) = <<>> THEN 0 ELSE HelpExplicit(options, << "-", e[1] >>, Tail(e))
         ELSE 2
    ELSE 2

SystemExit(code) == [outcome |-> "SystemExit", code |-> code, ns |-> EmptyMap]
Parsed(ns) == [outcome |-> "ok", code |-> 0, ns |-> ns]

\* The exit status and the continuation of one round of the loop.
Round(code, i, ns, extras) == [code |-> code, i |-> i, ns |-> ns, extras |-> extras]

\* consume_optional at position i, where _parse_optional found the option t
\* with the action it is registered for and next is the pattern character
\* after it ("" at the end): an option that is not registered is an extra; a
\* help option prints the help and exits with 0; a store option takes its
\* explicit argument, or the next string when that is an argument, and is an
\* error otherwise.  The exit status is -1 when the loop goes on.
consume_optional(options, strings, i, ns, extras, t, action, next) ==
    IF ~t.known THEN Round(-1, i + 1, ns, TRUE)
    ELSE IF action.help
    THEN Round(IF t.explicit = None THEN 0 ELSE HelpExplicit(options, t.option, t.explicit.s),
               i, ns, extras)
    ELSE IF t.explicit # None
    THEN Round(-1, i + 1, SetItem(ns, action.dest, get_values(t.explicit.s)), extras)
    ELSE IF next = "A"
    THEN Round(-1, i + 2, SetItem(ns, action.dest, Str(strings[i + 1])), extras)
    ELSE Round(2, i, ns, extras)

\* One round of the loop of _parse_known_args at position i, for a parser with
\* no positional action: a string that is no option is an extra, an option is
\* consumed.
consume(options, strings, i, ns, extras) ==
    IF ArgPattern(options, strings, i) # "O"
    THEN Round(-1, i + 1, ns, TRUE)
    ELSE consume_optional(options, strings, i, ns, extras,
                          parse_optional(options, strings[i]),
                          OptionAction(parse_optional(options, strings[i]).option),
                          IF i + 1 > Len(strings) THEN "" ELSE ArgPattern(options, strings, i + 1))

\* The loop of _parse_known_args from position i on; parse_args exits with 2
\* on an error and, at the end, on any extra.
RECURSIVE ConsumeFrom(_, _, _, _, _)
RECURSIVE Continue(_, _, _)
ConsumeFrom(options, strings, i, ns, extras) ==
    IF i > Len(strings)
    THEN IF extras THEN SystemExit(2) ELSE Parsed(ns)
    ELSE Continue(options, strings, consume(options, strings, i, ns, extras))

Continue(options, strings, r) ==
    IF r.code >= 0
    THEN SystemExit(r.code)
    ELSE ConsumeFrom(options, strings, r.i, r.ns, r.extras)

\* parse_args, first part: every action's default is stored under its dest,
\* unless the Namespace already has that attribute.
RECURSIVE AddDefaults(_, _, _)
AddDefaults(spec, arglist, ns) ==
    IF arglist = <<>>
    THEN ns
    ELSE LET a == Head(arglist)
             d == Dest(a.name).s
         IN  AddDefaults(spec, Tail(arglist),
                         IF d \in DOMAIN ns THEN ns ELSE SetItem(ns, d, ArgDefault(spec, a)))

\* parser.parse_args() on the command line strings (sys.argv[1:]), for a parser
\* every add_argument of which succeeded: the Namespace, or the exit status.
\* An ambiguous abbreviation anywhere before a '--' is an error before any
\* option is acted on.
parse_args(spec, arglist, strings) ==
    LET options == OptionStrings(arglist)
    IN  IF \E i \in 1..(FirstDoubleDash(strings) - 1) :
                parse_optional(options, strings[i]).class = "error"
        THEN SystemExit(2)
        ELSE ConsumeFrom(options, strings, 1, AddDefaults(spec, arglist, EmptyMap), FALSE)

\* `arg_spec.name not in args`: the Namespace has no attribute of that name.
NotInArgs(arg_spec, ns) == arg_spec.name \notin DOMAIN ns

\* A record written to the logger: level, format string and its arguments
\* (a1 a str, a2 any value; nargs says how many the format takes).
LogRecord(level, fmt, nargs, a1, a2) ==
    [level |-> level, fmt |-> fmt, nargs |-> nargs, a1 |-> a1, a2 |-> a2]

\* The help message print_help writes to stdout, as one line.
HelpMessage(spec) == [fmt |-> "usage: {prog} [-h] ...", name |-> spec.description.s, result |-> None]

\* parse_arguments ended by an exception or by argparse's exit.
NotReturned(arglist, outcome, status, printed) ==
    [outcome |-> outcome, exit_status |-> status, arguments |-> arglist,
     args |-> EmptyMap, missing_args |-> FALSE, log |-> <<>>, stdout |-> printed]

\* The required arguments the check of parse_arguments reports, in order.
MissingArguments(arglist, ns) ==
    SelectSeq(arglist, LAMBDA a : a.required /\ NotInArgs(a, ns))

\* The check that all required arguments are present, and the return.
CheckMissing(arglist, ns, missing) ==
    [outcome |-> "returned",
     exit_status |-> None,
     arguments |-> arglist,
     args |-> ns,
     missing_args |-> missing # <<>>,
     log |-> [i \in DOMAIN missing |->
                LogRecord("ERROR", "Missing required argument %s", 1, missing[i].name, None)],
     stdout |-> <<>>]

\* parse_arguments from parser.parse_args() on, given its outcome.
AfterParseArgs(spec, arglist, parsed) ==
    IF parsed.outcome = "SystemExit"
    THEN NotReturned(arglist, "SystemExit", Num(parsed.code),
                     IF parsed.code = 0 THEN << HelpMessage(spec) >> ELSE <<>>)
    ELSE CheckMissing(arglist, parsed.ns, MissingArguments(arglist, parsed.ns))

\* parse_arguments from the add_argument loop on, given the ArgSpec list and
\* the loop's outcome.
AfterLoad(spec, arglist, strings, added) ==
    IF added # "ok"
    THEN NotReturned(arglist, added, None, <<>>)
    ELSE AfterParseArgs(spec, arglist, parse_args(spec, arglist, strings))

\* parse_arguments(action_spec): how it ended ("returned", or the exception
\* that left it, SystemExit with argparse's exit status), the ArgSpec list,
\* the Namespace, the missing_args flag, the errors logged and the lines
\* printed.
parse_arguments(spec, inputs, strings) ==
    AfterLoad(spec, LoadArguments(inputs), strings, AddArguments(LoadArguments(inputs)))

----------------------------------------------------------------------------
(* ActionSpec and the caller's functions *)

\* Python's `a or b`.
Or(a, b) == IF Truthy(a) THEN a ELSE b

\* ActionSpec(...) followed by __post_init__.  set_defaults and do_action are
\* "none" when not supplied, else the name of the caller's function.
ActionSpec(name, long_name, description, env_prefix, set_defaults, do_action) ==
    [name |-> name,
     long_name |-> Or(long_name, name),
     description |-> Or(description, name),
     env_prefix |-> Or(env_prefix, name),
     set_defaults |-> set_defaults,
     do_action |-> do_action]

DRY_RUN == << "d", "r", "y", "-", "r", "u", "n" >>

\* What a caller's set_defaults may return for the mapping a: the mapping
\* itself (the docstring's example), the mapping with every None replaced by a
\* value, the mapping with a value added under the name 'dry-run', or a
\* mapping with every entry removed.
ApplySetDefaults(f, a) ==
    CASE f = "identity" -> a
      [] f = "fill" -> [k \in DOMAIN a |-> IF a[k] = None THEN Str(<< "f" >>) ELSE a[k]]
      [] f = "supply" -> SetItem(a, DRY_RUN, Str(<< "f" >>))
      [] f = "drop" -> EmptyMap

----------------------------------------------------------------------------
(* action_main *)

TOKEN == << "t", "o", "k", "e", "n" >>

\* sorted() of a set of str keys.
RECURSIVE Sorted(_)
Sorted(S) ==
    IF S = {}
    THEN <<>>
    ELSE LET m == CHOOSE x \in S : \A y \in S \ {x} : StrLess(x, y)
         IN  << m >> \o Sorted(S \ {m})

\* The record logged for one argument, no name masked.
ArgumentLine_NoMask(arg, val) == LogRecord("INFO", "  %s=%s:", 2, arg, val)

\* The record logged for one argument of the mapping.
ArgumentLine(arg, val) ==
    IF arg = TOKEN
    THEN LogRecord("INFO", "  %s=********:", 1, arg, None)
    ELSE LogRecord("INFO", "  %s=%s:", 2, arg, val)

\* The records logged for the mapping: a heading, then one per argument.
ArgumentLog(spec, mapping) ==
    LET keys == Sorted(DOMAIN mapping)
    IN  << LogRecord("INFO", "%s, with arguments:", 1, spec.long_name.s, None) >>
        \o [i \in DOMAIN keys |-> ArgumentLine(keys[i], mapping[keys[i]])]

\* One printed line: its format and the two values formatted into it.
OutputLine(fmt, entry) == [fmt |-> fmt, name |-> entry.name, result |-> entry.result]

\* The lines printed by a single loop: both formats of an entry together.
RECURSIVE EmitOutputs_Interleaved(_)
EmitOutputs_Interleaved(out) ==
    IF out = <<>>
    THEN <<>>
    ELSE << OutputLine("::set-output name={name}::{result}", Head(out)),
            OutputLine("set-output name={name}::{result}", Head(out)) >>
         \o EmitOutputs_Interleaved(Tail(out))

\* The lines printed for do_action's result (a dict, kept in insertion order).
EmitOutputs(out) ==
    [i \in DOMAIN out |-> OutputLine("::set-output name={name}::{result}", out[i])]
    \o [i \in DOMAIN out |-> OutputLine("set-output name={name}::{result}", out[i])]

\* The check left out.
MissingCheck_Never == FALSE

\* The check made again on the mapping at hand: a required argument is absent.
MissingCheck_Reevaluated ==
    \E i \in DOMAIN arguments : arguments[i].required /\ arguments[i].name \notin DOMAIN args

\* `if missing_args:`
MissingCheck == missing_args

\* One call made by action_main: the function, the mapping passed, the mapping returned.
Call(name, mapping, ret) == [call |-> name, arg |-> mapping, ret |-> ret]

----------------------------------------------------------------------------
(* Bounds and input sets *)

MaxParams == 2        \* inputs of a manifest given to action_main
MaxParseParams == 2   \* inputs of a manifest given to parse_arguments alone
MaxArgv == 1          \* options on the command line
MaxOutputs == 2       \* entries of do_action's result
MaxDefaultLen == 4    \* characters of a manifest default under expansion
MaxEnvList == 2       \* length of get_env's envar_list

SeqsUpTo(S, n) == UNION { [1..k -> S] : k \in 0..n }
DistinctNames(seq) == \A i, j \in DOMAIN seq : i # j => seq[i].name # seq[j].name
NamesOf(seq) == { seq[i].name : i \in DOMAIN seq }

USER == << "u", "s", "e", "r" >>
DASH_X == << "-", "x" >>
DRY_RUN_UNDERSCORE == << "d", "r", "y", "_", "r", "u", "n" >>
DRY0 == << "d", "r", "y", "0" >>
GHE_TOKEN == << "G", "H", "E", "_", "T", "O", "K", "E", "N" >>
MYAPP_ == << "M", "Y", "A", "P", "P", "_" >>

\* The value a variable has when it is set to a non-empty string: one per
\* kind of variable, so that a result tells which variable it came from.
EnvValue(n) ==
    IF n = GHE_TOKEN THEN << "s", "3" >>
    ELSE IF Len(n) >= 6 /\ SubSeq(n, 1, 6) = INPUT_ THEN << "g" >>
    ELSE IF Len(n) >= 6 /\ SubSeq(n, 1, 6) = MYAPP_ THEN << "t" >>
    ELSE IF n = << "A" >> THEN << "$", "B" >>
    ELSE IF n = << "B" >> THEN << "v" >>
    ELSE << "w" >>

\* Every environment over the variables U: each unset, empty or set.
Environments(U) ==
    UNION { { [n \in D |-> IF n \in E THEN <<>> ELSE EnvValue(n)] : E \in SUBSET D } :
            D \in SUBSET U }

\* The constructor arguments tried: env_prefix absent (the name is used),
\* given with a space and lower case, and given empty.
SpecFields ==
    { [name |-> Str(<< "m", "y", " ", "a", "p", "p" >>), long_name |-> None, env_prefix |-> None],
      [name |-> Str(<< "x" >>), long_name |-> Str(<< "X", " ", "t", "o", "o", "l" >>),
       env_prefix |-> Str(<< "M", "y", " ", "A", "p", "p" >>)],
      [name |-> Str(<< "x" >>), long_name |-> None, env_prefix |-> Str(<<>>)] }

ActionSpecs(fields, set_defaults, do_action) ==
    { ActionSpec(f.name, f.long_name, None, f.env_prefix, sd, da) :
        f \in fields, sd \in set_defaults, da \in do_action }

\* For action_main: the constructor arguments that give an env_prefix.
MainSpecFields == { f \in SpecFields : f.env_prefix # Str(<<>>) }

Input(name, default, required) == [name |-> name, default |-> default, required |-> required]

\* Manifest inputs for action_main: the docstring's user and token, a name
\* with a hyphen, and a name that sorts after it but whose dest sorts before
\* its dest.
MainInputs ==
    { Input(USER, None, FALSE),
      Input(USER, None, TRUE),
      Input(TOKEN, Str(<< "$", "{" >> \o GHE_TOKEN \o << "}" >>), FALSE),
      Input(TOKEN, None, TRUE),
      Input(DRY_RUN, Str(<< "n", "o" >>), TRUE),
      Input(DRY_RUN, None, FALSE),
      Input(DRY0, Str(<< "y" >>), FALSE) }

MainEnvNames == { GHE_TOKEN }

\* Manifest inputs for parse_arguments alone: user with no default, a string
\* default or a default that is no string, a name with a hyphen inside, a
\* name that starts with a hyphen, and a name with an underscore where the
\* other has the hyphen, so that the two have one dest.
ParseInputs ==
    { Input(USER, None, FALSE),
      Input(USER, None, TRUE),
      Input(USER, Str(<< "d" >>), FALSE),
      Input(USER, Num(7), TRUE),
      Input(DRY_RUN, None, FALSE),
      Input(DRY_RUN, None, TRUE),
      Input(DRY_RUN, Str(<< "d" >>), TRUE),
      Input(DASH_X, Str(<< "d" >>), FALSE),
      Input(DRY_RUN_UNDERSCORE, None, FALSE),
      Input(DRY_RUN_UNDERSCORE, Str(<< "b" >>), FALSE) }

\* The environment variables consulted for the inputs of a manifest.
ParseEnvNames(spec, inputs) ==
    UNION { { ToolEnvName(spec, inputs[i].name), GenericEnvName(inputs[i].name) } :
                i \in DOMAIN inputs }

Manifests(S, n) == { m \in SeqsUpTo(S, n) : DistinctNames(m) }

\* The strings of a sequence of options: --<name> <value> for each.
RECURSIVE OptionArgs(_)
OptionArgs(opts) ==
    IF opts = <<>>
    THEN <<>>
    ELSE << OptionString(Head(opts).name), Head(opts).value >> \o OptionArgs(Tail(opts))

\* Command lines: at most n options, each --<name> of the manifest at most once.
CommandLines(names, values, n) ==
    { OptionArgs(o) :
        o \in { x \in SeqsUpTo([name : names, value : values], n) : DistinctNames(x) } }

\* Further command lines: --user abbreviated, an option no manifest declares,
\* and the parser's own --help.
OtherCommandLines ==
    { << << "-", "-", "u", "s" >>, << "c" >> >>,
      << << "-", "-", "f", "o", "o" >>, << "c" >> >>,
      << << "-", "-", "h", "e", "l", "p" >> >> }

\* Manifests add_argument rejects: an input named 'help' and one named '-'.
RejectedManifests ==
    { << Input(<< "h", "e", "l", "p" >>, None, FALSE) >>,
      << Input(<< "-" >>, None, TRUE) >> }

\* Defaults under expansion: every string over these characters.
ExpandAlphabet == { "$", "{", "}", "A", "B" }
ExpandEnvNames == { << "A" >>, << "B" >>, << "A", "B" >> }
ExpandDefaults ==
    { None, Num(7) } \cup { Str(s) : s \in SeqsUpTo(ExpandAlphabet, MaxDefaultLen) }

\* Results of do_action: the entries of the pool, in any order.
OutputPool ==
    { [name |-> << "f", "o", "o" >>, result |-> Str(<< "b", "a", "r" >>)],
      [name |-> << "n" >>, result |-> Num(7)],
      [name |-> << "o", "k" >>, result |-> None] }

DoActionResults == { o \in SeqsUpTo(OutputPool, MaxOutputs) : DistinctNames(o) }

----------------------------------------------------------------------------
(* Initial states *)

Fresh ==
    /\ arguments = <<>>
    /\ args = EmptyMap
    /\ missing_args = FALSE
    /\ parsed_args = EmptyMap
    /\ log = <<>>
    /\ stdout = <<>>
    /\ exit_status = None
    /\ outputs = <<>>
    /\ events = <<>>
    /\ env_result = None

NoGetEnvCall == envar_list = <<>> /\ env_default = None

\* action_main(action_spec) is about to run.
Init ==
    /\ pc = "start"
    /\ action_spec \in ActionSpecs(MainSpecFields, { "none", "identity", "fill", "supply", "drop" }, { "none", "fn" })
    /\ manifest \in Manifests(MainInputs, MaxParams)
    /\ argv \in CommandLines(NamesOf(manifest), { << "c" >> }, MaxArgv) \cup OtherCommandLines
    /\ environ \in Environments(MainEnvNames)
    /\ Fresh /\ NoGetEnvCall

\* parse_arguments(action_spec) is about to run.
InitParse ==
    /\ pc = "start"
    /\ action_spec \in ActionSpecs(SpecFields, { "none" }, { "none" })
    /\ manifest \in Manifests(ParseInputs, MaxParseParams) \cup RejectedManifests
    /\ argv \in CommandLines(NamesOf(manifest), { <<>>, << "c" >> }, MaxArgv) \cup OtherCommandLines
    /\ environ \in Environments(ParseEnvNames(action_spec, manifest))
    /\ Fresh /\ NoGetEnvCall

\* parse_arguments(action_spec) is about to run on a manifest with one input,
\* whose default is any value of ExpandDefaults.
InitExpand ==
    /\ pc = "start"
    /\ action_spec \in ActionSpecs(SpecFields, { "none" }, { "none" })
    /\ action_spec.env_prefix = Str(<< "x" >>)
    /\ \E d \in ExpandDefaults : manifest = << Input(USER, d, FALSE) >>
    /\ argv = <<>>
    /\ environ \in Environments(ExpandEnvNames)
    /\ Fresh /\ NoGetEnvCall

\* get_env(envar_list, env_default) is about to run.
InitGetEnv ==
    /\ pc = "get_env"
    /\ action_spec = ActionSpec(Str(<< "x" >>), None, None, None, "none", "none")
    /\ manifest = <<>>
    /\ argv = <<>>
    /\ environ \in Environments(ExpandEnvNames)
    /\ envar_list \in SeqsUpTo(ExpandEnvNames, MaxEnvList)
    /\ env_default \in { None, Str(<< "d" >>) }
    /\ Fresh

----------------------------------------------------------------------------
(* Actions *)

\* get_env called on its own.
GetEnvCall ==
    /\ pc = "get_env"
    /\ env_result' = get_env(envar_list, env_default)
    /\ pc' = "get_env_returned"
    /\ UNCHANGED << action_spec, manifest, environ, argv, arguments, args, missing_args,
                    parsed_args, log, stdout, exit_status, outputs, events,
                    envar_list, env_default >>

\* The end of parse_arguments with the result r: action_main goes on with the
\* mapping and the flag, or is left by the exception.
Returns(r) ==
    /\ arguments' = r.arguments
    /\ args' = r.args
    /\ parsed_args' = r.args
    /\ missing_args' = r.missing_args
    /\ log' = log \o r.log
    /\ stdout' = stdout \o r.stdout
    /\ exit_status' = r.exit_status
    /\ events' = IF r.outcome = "returned"
                 THEN Append(events, Call("parse_arguments", EmptyMap, r.args))
                 ELSE events
    /\ pc' = IF r.outcome = "returned" THEN "parsed" ELSE r.outcome

\* args, missing_args = parse_arguments(action_spec); args = vars(args)
ParseArgs ==
    /\ pc = "start"
    /\ Returns(parse_arguments(action_spec, manifest, argv))
    /\ UNCHANGED << action_spec, manifest, environ, argv, outputs,
                    envar_list, env_default, env_result >>

\* set_defaults called and its result dropped.
CallSetDefaults_Discard ==
    /\ pc = "parsed"
    /\ action_spec.set_defaults # "none"
    /\ events' = Append(events, Call("set_defaults", args,
                                      ApplySetDefaults(action_spec.set_defaults, args)))
    /\ pc' = "defaulted"
    /\ UNCHANGED << action_spec, manifest, environ, argv, arguments, args, missing_args,
                    parsed_args, log, stdout, exit_status, outputs,
                    envar_list, env_default, env_result >>

\* if action_spec.set_defaults: args = action_spec.set_defaults(args)
CallSetDefaults ==
    /\ pc = "parsed"
    /\ action_spec.set_defaults # "none"
    /\ args' = ApplySetDefaults(action_spec.set_defaults, args)
    /\ events' = Append(events, Call("set_defaults", args, args'))
    /\ pc' = "defaulted"
    /\ UNCHANGED << action_spec, manifest, environ, argv, arguments, missing_args, parsed_args,
                    log, stdout, exit_status, outputs, envar_list, env_default, env_result >>

SkipSetDefaults ==
    /\ pc = "parsed"
    /\ action_spec.set_defaults = "none"
    /\ pc' = "defaulted"
    /\ UNCHANGED << action_spec, manifest, environ, argv, arguments, args, missing_args,
                    parsed_args, log, stdout, exit_status, outputs, events,
                    envar_list, env_default, env_result >>

\* The logging of the arguments.
LogArguments ==
    /\ pc = "defaulted"
    /\ log' = log \o ArgumentLog(action_spec, args)
    /\ events' = Append(events, Call("log", args, EmptyMap))
    /\ pc' = "logged"
    /\ UNCHANGED << action_spec, manifest, environ, argv, arguments, args, missing_args,
                    parsed_args, stdout, exit_status, outputs,
                    envar_list, env_default, env_result >>

\* if missing_args: logger.error(...); exit(1)
ExitMissing ==
    /\ pc = "logged"
    /\ MissingCheck
    /\ log' = Append(log, LogRecord("ERROR", "Some required arguments are missing!", 0, <<>>, None))
    /\ exit_status' = Num(1)
    /\ pc' = "exited"
    /\ UNCHANGED << action_spec, manifest, environ, argv, arguments, args, missing_args,
                    parsed_args, stdout, outputs, events, envar_list, env_default, env_result >>

\* outputs = action_spec.do_action(args), the two print loops, return outputs
CallDoAction ==
    /\ pc = "logged"
    /\ ~MissingCheck
    /\ action_spec.do_action # "none"
    /\ \E out \in DoActionResults :
        /\ outputs' = out
        /\ stdout' = stdout \o EmitOutputs(out)
    /\ events' = Append(events, Call("do_action", args, EmptyMap))
    /\ pc' = "returned"
    /\ UNCHANGED << action_spec, manifest, environ, argv, arguments, args, missing_args,
                    parsed_args, log, exit_status, envar_list, env_default, env_result >>

\* return {}
ReturnEmpty ==
    /\ pc = "logged"
    /\ ~MissingCheck
    /\ action_spec.do_action = "none"
    /\ outputs' = <<>>
    /\ pc' = "returned"
    /\ UNCHANGED << action_spec, manifest, environ, argv, arguments, args, missing_args,
                    parsed_args, log, stdout, exit_status, events,
                    envar_list, env_default, env_result >>

Next ==
    \/ ParseArgs
    \/ CallSetDefaults
    \/ SkipSetDefaults
    \/ LogArguments
    \/ ExitMissing
    \/ CallDoAction
    \/ ReturnEmpty

\* action_main
Spec == Init /\ [][Next]_vars

\* parse_arguments on its own
SpecParse == InitParse /\ [][ParseArgs]_vars

\* parse_arguments on manifests whose default is expanded
SpecExpand == InitExpand /\ [][ParseArgs]_vars

\* get_env on its own
SpecGetEnv == InitGetEnv /\ [][GetEnvCall]_vars

----------------------------------------------------------------------------
(* Properties.  They are stated from the inputs (manifest, argv, environ and *)
(* the constructor arguments), with the environment variable names and the  *)
(* argument keys written out, not computed by the operators above.          *)

DRY_RUN_KEY == << "d", "r", "y", "_", "r", "u", "n" >>

\* The key under which the mapping holds the parameter.
KeyOf(name) ==
    IF name = DRY_RUN THEN DRY_RUN_KEY
    ELSE IF name = << "-", "x" >> THEN << "x" >>
    ELSE name

\* The parameter name in upper case.
UpperName(name) ==
    IF name = USER THEN << "U", "S", "E", "R" >>
    ELSE IF name = TOKEN THEN << "T", "O", "K", "E", "N" >>
    ELSE IF name = << "-", "x" >> THEN << "-", "X" >>
    ELSE IF name = DRY_RUN_KEY THEN << "D", "R", "Y", "_", "R", "U", "N" >>
    ELSE IF name = DRY0 THEN << "D", "R", "Y", "0" >>
    ELSE << "D", "R", "Y", "-", "R", "U", "N" >>

\* The prefix of the tool-specific variable: MYAPP for the name 'my app' with no
\* env_prefix and for the env_prefix 'My App', X for the name 'x' with an empty
\* env_prefix.
ExpectedPrefix ==
    IF \/ action_spec.name = Str(<< "m", "y", " ", "a", "p", "p" >>)
       \/ action_spec.long_name = Str(<< "X", " ", "t", "o", "o", "l" >>)
    THEN << "M", "Y", "A", "P", "P" >>
    ELSE << "X" >>

ToolVar(name) == ExpectedPrefix \o << "_" >> \o UpperName(name)
GenericVar(name) == << "I", "N", "P", "U", "T", "_" >> \o UpperName(name)

\* The forms in which the command lines give a parameter's flag: --<name>, and
\* --us for user.
FlagsOf(name) ==
    { << "-", "-" >> \o name } \cup (IF name = USER THEN { << "-", "-", "u", "s" >> } ELSE {})

\* The positions of the command line at which the flag is given with a value.
GivenAt(name) == { i \in 1..(Len(argv) - 1) : argv[i] \in FlagsOf(name) }
HasCli(name) == GivenAt(name) # {}
CliValue(name) ==
    LET last == CHOOSE i \in GivenAt(name) : \A j \in GivenAt(name) : j <= i
    IN  argv[last + 1]
NonEmptyEnv(n) == n \in DOMAIN environ /\ environ[n] # <<>>
EnvSet(name) == NonEmptyEnv(ToolVar(name)) \/ NonEmptyEnv(GenericVar(name))
EventsOf(name) == SelectSeq(events, LAMBDA e : e.call = name)

\* The set-output lines printed, in order.
SetOutputLines ==
    SelectSeq(stdout, LAMBDA l : l.fmt \in { "::set-output name={name}::{result}",
                                             "set-output name={name}::{result}" })

Final == pc \in { "exited", "returned" }

\* C1: the value parse_arguments resolves for each declared parameter is the
\* command-line value when the flag is given; otherwise the value of one of the
\* parameter's environment variables when one is set to a non-empty string;
\* otherwise the manifest default (None when the manifest declares none).
C1_Precedence ==
    pc = "parsed" =>
        \A i \in DOMAIN manifest :
            LET name == manifest[i].name
                key == KeyOf(name)
            IN  /\ key \in DOMAIN args
                /\ HasCli(name) => args[key] = Str(CliValue(name))
                /\ (~HasCli(name) /\ EnvSet(name)) =>
                        \E n \in { ToolVar(name), GenericVar(name) } :
                            NonEmptyEnv(n) /\ args[key] = Str(environ[n])
                /\ (~HasCli(name) /\ ~EnvSet(name)) => args[key] = manifest[i].default

\* C1 witness: a parameter given (as an empty string) on the command line, set
\* in the environment and with a manifest default resolves to the command line.
C1_Witness ==
    /\ pc = "parsed"
    /\ \E i \in DOMAIN manifest :
        /\ HasCli(manifest[i].name)
        /\ CliValue(manifest[i].name) = <<>>
        /\ NonEmptyEnv(ToolVar(manifest[i].name))
        /\ manifest[i].default = Str(<< "d" >>)
        /\ args[KeyOf(manifest[i].name)] = Str(<<>>)

\* A required parameter resolved from no source.
Unresolved(i) ==
    /\ ~HasCli(manifest[i].name)
    /\ ~EnvSet(manifest[i].name)
    /\ manifest[i].default = None

\* C2: the missing flag parse_arguments returns is true exactly when some
\* parameter declared required was resolved from no source (no flag, no
\* non-empty environment variable, no manifest default).
C2_MissingFlagExact ==
    pc = "parsed" =>
        (missing_args <=> \E i \in DOMAIN manifest : manifest[i].required /\ Unresolved(i))

\* C3: without a command-line flag, a parameter whose tool-specific variable
\* <PREFIX>_<NAME> is set to a non-empty string resolves to that value, and the
\* generic variable INPUT_<NAME> is used only when the tool-specific one is
\* unset or empty.
C3_ToolSpecificFirst ==
    pc = "parsed" =>
        \A i \in DOMAIN manifest :
            LET name == manifest[i].name
                result == args[KeyOf(name)]
            IN  ~HasCli(name) =>
                    /\ NonEmptyEnv(ToolVar(name)) => result = Str(environ[ToolVar(name)])
                    /\ (~NonEmptyEnv(ToolVar(name)) /\ NonEmptyEnv(GenericVar(name))) =>
                            result = Str(environ[GenericVar(name)])

\* C3 witness: env_prefix 'My App', both MYAPP_DRY-RUN and INPUT_DRY-RUN set to
\* non-empty strings, and the parameter dry-run resolved to the tool-specific one.
C3_Witness ==
    /\ pc = "parsed"
    /\ action_spec.env_prefix = Str(<< "M", "y", " ", "A", "p", "p" >>)
    /\ \E i \in DOMAIN manifest :
        /\ manifest[i].name = DRY_RUN
        /\ ~HasCli(DRY_RUN)
        /\ NonEmptyEnv(<< "M", "Y", "A", "P", "P", "_", "D", "R", "Y", "-", "R", "U", "N" >>)
        /\ NonEmptyEnv(<< "I", "N", "P", "U", "T", "_", "D", "R", "Y", "-", "R", "U", "N" >>)
        /\ args[DRY_RUN_KEY] = Str(<< "t" >>)

\* C4: when parse_arguments reported missing arguments, action_main ends in
\* exit(1), do_action is never called and nothing is printed; when it did not
\* and do_action is supplied, do_action is called exactly once.
C4_MissingExits ==
    /\ missing_args => (SetOutputLines = <<>> /\ EventsOf("do_action") = <<>>)
    /\ (pc = "logged" /\ missing_args) =>
            (ENABLED ExitMissing /\ ~ENABLED CallDoAction /\ ~ENABLED ReturnEmpty)
    /\ (Final /\ missing_args) => (pc = "exited" /\ exit_status = Num(1))
    /\ (Final /\ ~missing_args /\ action_spec.do_action # "none") =>
            Len(EventsOf("do_action")) = 1
    /\ Len(EventsOf("do_action")) <= 1

\* C4 witness: a run with do_action supplied that ended in exit(1).
C4_Witness ==
    /\ pc = "exited"
    /\ missing_args
    /\ exit_status = Num(1)
    /\ action_spec.do_action = "fn"

\* The records logged for the arguments, in order.
ArgRecords == SelectSeq(log, LAMBDA r : r.fmt \in { "  %s=%s:", "  %s=********:" })

\* The keys that occur, in code-point order ('-' is before '0', '0' before '_').
KeyOrder == << DRY_RUN, DRY0, DRY_RUN_KEY, TOKEN, USER >>
KeyRank(k) == CHOOSE i \in DOMAIN KeyOrder : KeyOrder[i] = k

\* The parameter names that occur, in code-point order.
NameOrder == << DRY_RUN, DRY0, TOKEN, USER >>
NameRank(n) == CHOOSE i \in DOMAIN NameOrder : NameOrder[i] = n

\* One record per entry of the mapping: the record of the key 'token' is the
\* fixed mask and carries no value, every other record carries the entry's
\* value.
OneRecordPerEntry(recs) ==
    /\ Len(recs) = Cardinality(DOMAIN args)
    /\ { recs[i].a1 : i \in DOMAIN recs } = DOMAIN args
    /\ \A i \in DOMAIN recs :
        IF recs[i].a1 = TOKEN
        THEN recs[i] = [level |-> "INFO", fmt |-> "  %s=********:", nargs |-> 1,
                        a1 |-> TOKEN, a2 |-> None]
        ELSE recs[i] = [level |-> "INFO", fmt |-> "  %s=%s:", nargs |-> 2,
                        a1 |-> recs[i].a1, a2 |-> args[recs[i].a1]]

\* The position of the record logged for a key.
RecordOf(recs, k) == CHOOSE i \in DOMAIN recs : recs[i].a1 = k

\* C5: the log holds one record per entry of the mapping, under the entry's
\* key (the parameter's dest: dry_run for dry-run) and in sorted key order; the
\* record of the key 'token' is the fixed mask and carries no value, and every
\* other record carries the entry's value.
C5_TokenMasked ==
    /\ pc \in { "start", "parsed", "defaulted" } => ArgRecords = <<>>
    /\ pc \in { "logged", "exited", "returned" } =>
        /\ OneRecordPerEntry(ArgRecords)
        /\ \A i, j \in DOMAIN ArgRecords :
                i < j => KeyRank(ArgRecords[i].a1) < KeyRank(ArgRecords[j].a1)

\* C5 as the specification words it: the token is masked, every other
\* parameter is logged with its value, and the records of the declared
\* parameters follow the sorted order of the parameter names.
C5_ParameterNameOrder ==
    /\ pc \in { "start", "parsed", "defaulted" } => ArgRecords = <<>>
    /\ pc \in { "logged", "exited", "returned" } =>
        /\ OneRecordPerEntry(ArgRecords)
        /\ \A i, j \in DOMAIN manifest :
                ( /\ KeyOf(manifest[i].name) \in DOMAIN args
                  /\ KeyOf(manifest[j].name) \in DOMAIN args
                  /\ NameRank(manifest[i].name) < NameRank(manifest[j].name) ) =>
                    RecordOf(ArgRecords, KeyOf(manifest[i].name))
                        < RecordOf(ArgRecords, KeyOf(manifest[j].name))

\* C5 witness: the arguments were logged while token held a secret from the
\* environment, with dry0 from its default in the mapping too and logged
\* before it.
C5_Witness ==
    /\ pc = "logged"
    /\ TOKEN \in DOMAIN args
    /\ DRY0 \in DOMAIN args
    /\ args[TOKEN] = Str(<< "s", "3" >>)
    /\ ArgRecords[1].a1 = DRY0
    /\ ArgRecords[2].a1 = TOKEN

\* C6: the lines printed for do_action's result are the prefixed lines of all
\* entries followed by the unprefixed lines of all entries, both in the order
\* of the result, twice as many lines as entries; no set-output line is
\* printed otherwise.
C6_DualFormat ==
    /\ (pc = "returned" /\ action_spec.do_action # "none") =>
        LET n == Len(outputs)
        IN  /\ Len(stdout) = 2 * n
            /\ \A i \in 1..n :
                /\ stdout[i] = [fmt |-> "::set-output name={name}::{result}",
                                name |-> outputs[i].name, result |-> outputs[i].result]
                /\ stdout[n + i] = [fmt |-> "set-output name={name}::{result}",
                                    name |-> outputs[i].name, result |-> outputs[i].result]
    /\ (pc # "returned" \/ action_spec.do_action = "none") => SetOutputLines = <<>>

\* C6 witness: do_action returned two entries and four lines were printed.
C6_Witness ==
    /\ pc = "returned"
    /\ Len(outputs) = 2
    /\ Len(stdout) = 4

\* C7: get_env returns the value of the first variable of the list that is set
\* to a non-empty string, and the default (None when none is given) when there
\* is no such variable.
C7_GetEnvFirstNonEmpty ==
    pc = "get_env_returned" =>
        LET hits == { i \in DOMAIN envar_list : NonEmptyEnv(envar_list[i]) }
        IN  IF hits = {}
            THEN env_result = env_default
            ELSE env_result =
                    Str(environ[envar_list[CHOOSE i \in hits : \A j \in hits : i <= j]])

\* C7 witness: the first variable is set to the empty string, the second to a
\* non-empty one, a default is given, and the second variable's value is returned.
C7_Witness ==
    /\ pc = "get_env_returned"
    /\ Len(envar_list) = 2
    /\ envar_list[1] \in DOMAIN environ
    /\ environ[envar_list[1]] = <<>>
    /\ NonEmptyEnv(envar_list[2])
    /\ env_default = Str(<< "d" >>)
    /\ env_result = Str(environ[envar_list[2]])

\* The last position of the reference that starts at position p of s: $NAME
\* with NAME the longest run of letters, digits and underscores, or ${...} up
\* to the first closing brace; 0 when no reference starts at p.
RefEnd(s, p) ==
    IF p >= Len(s) \/ s[p] # "$"
    THEN 0
    ELSE LET run == { j \in (p + 1)..Len(s) : \A k \in (p + 1)..j : IsWordChar(s[k]) }
             closing == { j \in (p + 2)..Len(s) : s[j] = "}" }
         IN  IF run # {}
             THEN CHOOSE j \in run : \A k \in run : k <= j
             ELSE IF s[p + 1] = "{" /\ closing # {}
             THEN CHOOSE j \in closing : \A k \in closing : j <= k
             ELSE 0

RefName(s, p, j) == IF s[p + 1] = "{" THEN Slice(s, p + 2, j - 1) ELSE Slice(s, p + 1, j)

\* The text of s from position p on, each reference to a set variable replaced
\* by the variable's value and everything else copied.
RECURSIVE Expanded(_, _)
Expanded(s, p) ==
    IF p > Len(s)
    THEN <<>>
    ELSE LET j == RefEnd(s, p)
         IN  IF j = 0
             THEN << s[p] >> \o Expanded(s, p + 1)
             ELSE (IF RefName(s, p, j) \in DOMAIN environ
                   THEN environ[RefName(s, p, j)]
                   ELSE SubSeq(s, p, j)) \o Expanded(s, j + 1)

\* C8: the default of each ArgSpec, and the value the parameter resolves to
\* when nothing else supplies one, is the manifest default with every
\* reference to a set variable replaced by its value and every reference to an
\* unset variable left as it is; a default that is no string is unchanged.
C8_DefaultExpanded ==
    pc = "parsed" =>
        \A i \in DOMAIN manifest :
            LET d == manifest[i].default
                expected == IF d.kind = "str" THEN Str(Expanded(d.s, 1)) ELSE d
            IN  /\ arguments[i].default = expected
                /\ args[KeyOf(manifest[i].name)] = expected

\* C8 witness: the default '$A$B' with A set (to '$B') and B unset became '$B$B'.
C8_Witness ==
    /\ pc = "parsed"
    /\ manifest[1].default = Str(<< "$", "A", "$", "B" >>)
    /\ << "A" >> \in DOMAIN environ
    /\ environ[<< "A" >>] = << "$", "B" >>
    /\ << "B" >> \notin DOMAIN environ
    /\ arguments[1].default = Str(<< "$", "B", "$", "B" >>)

\* C9: set_defaults, when supplied, is called exactly once, before the
\* arguments are logged and before do_action; the mapping logged and the
\* mapping do_action receives are the one set_defaults returned, or the one
\* parse_arguments produced when set_defaults is not supplied.
C9_ResolvedMapping ==
    /\ pc \in { "defaulted", "logged", "exited", "returned" } =>
            Len(EventsOf("set_defaults")) =
                (IF action_spec.set_defaults # "none" THEN 1 ELSE 0)
    /\ pc \in { "start", "parsed" } => EventsOf("set_defaults") = <<>>
    /\ \A i \in DOMAIN events :
        events[i].call \in { "log", "do_action" } =>
            IF action_spec.set_defaults # "none"
            THEN \E j \in 1..(i - 1) :
                    /\ events[j].call = "set_defaults"
                    /\ events[j].arg = events[1].ret
                    /\ events[i].arg = events[j].ret
            ELSE events[1].call = "parse_arguments" /\ events[i].arg = events[1].ret
    /\ \A i, j \in DOMAIN events :
        (events[i].call = "log" /\ events[j].call = "do_action") =>
            (i < j /\ events[i].arg = events[j].arg)
    /\ (\E i \in DOMAIN log : log[i].level = "INFO") =>
            (\E i \in DOMAIN events : events[i].call = "log")

\* C9 witness: do_action was called with a mapping that set_defaults changed.
C9_Witness ==
    /\ pc = "returned"
    /\ action_spec.set_defaults = "fill"
    /\ \E i \in DOMAIN events :
        /\ events[i].call = "do_action"
        /\ events[i].arg # parsed_args

\* C10: action_main ends in exit(1) exactly when parse_arguments, run on the
\* inputs, returns the flag as true, whatever set_defaults returned.
C10_FlagFixedByParse ==
    /\ Final =>
        ((pc = "exited" /\ exit_status = Num(1))
            <=> parse_arguments(action_spec, manifest, argv).missing_args)
    /\ exit_status = Num(1) => pc = "exited"

\* C10 witness: set_defaults supplied a value under the name of the required
\* parameter that was reported missing, and the run still ended in exit(1).
C10_Witness ==
    /\ pc = "exited"
    /\ action_spec.set_defaults = "supply"
    /\ \E i \in DOMAIN manifest : manifest[i].name = DRY_RUN /\ manifest[i].required
    /\ DRY_RUN \in DOMAIN args
    /\ args[DRY_RUN] # None

====
